---- MODULE Spec2Model ----
(***************************************************************************)
(* extractor_basic.py: fetch one page, parse it, run the field extractors  *)
(* and print the record.                                                   *)
(*                                                                         *)
(* Representation.                                                         *)
(*  - A Python str is a sequence of one-character strings, so that strip,  *)
(*    split, join, startswith, lower and slicing are computed.  Attribute  *)
(*    values that the code only compares with a literal (type, property,   *)
(*    name, id, role) and tag names are atomic strings.                    *)
(*  - A Python value that may be None, a number, a str, a list or a dict   *)
(*    is a tagged record (PyNone, PyInt, PyStr, PyList, PyDict).           *)
(*  - A call that raises yields Raise(exception class).                    *)
(*  - A parsed document is a tree: an element is [name, attrs, kids], a    *)
(*    string child is [name |-> "#text", string, json] where json is what  *)
(*    json.loads makes of that string.                                     *)
(***************************************************************************)
EXTENDS Integers, Sequences, FiniteSets, TLC

(* ------------------------------------------------------------ bounds -- *)
\* Longest sequence of top-level elements of a page body.
MaxDocLen == 2
\* Longest JSON-LD author list.
MaxAuthors == 2
\* The preview slice of line 190.
PreviewLen == 4000

(* ----------------------------------------------------- Python values -- *)
PyNone == [t |-> "None"]
PyInt(n) == [t |-> "int", n |-> n]
PyStr(s) == [t |-> "str", s |-> s]
PyList(xs) == [t |-> "list", items |-> xs]
PyDict(d) == [t |-> "dict", d |-> d]
Raise(e) == [t |-> "raise", exc |-> e]
NoAttrs == [k \in {} |-> 0]

IsStr(v) == v.t = "str"
IsRaise(v) == v.t = "raise"

\* Python truthiness of a value.
Truthy(v) ==
    CASE v.t = "None" -> FALSE
      [] v.t = "int" -> v.n # 0
      [] v.t = "str" -> v.s # <<>>
      [] v.t = "list" -> v.items # <<>>
      [] v.t = "dict" -> DOMAIN v.d # {}
      [] OTHER -> TRUE

\* dict.get(key) and dict.get(key, default).
DictGet(dct, key, default) ==
    IF key \in DOMAIN dct.d THEN dct.d[key] ELSE default

(* ------------------------------------------------------------ strings -- *)
Whitespace == {" ", "\n", "\t"}

RECURSIVE LStrip(_)
LStrip(s) ==
    IF s # <<>> /\ Head(s) \in Whitespace THEN LStrip(Tail(s)) ELSE s

RECURSIVE RStrip(_)
RStrip(s) ==
    IF s # <<>> /\ s[Len(s)] \in Whitespace
    THEN RStrip(SubSeq(s, 1, Len(s) - 1))
    ELSE s

\* str.strip()
Strip(s) == RStrip(LStrip(s))

\* str.startswith(prefix)
StartsWith(s, prefix) ==
    Len(s) >= Len(prefix) /\ SubSeq(s, 1, Len(prefix)) = prefix

\* prefix in s (substring test)
Contains(s, sub) ==
    \E i \in 0..(Len(s) - Len(sub)) : SubSeq(s, i + 1, i + Len(sub)) = sub

UpperCase ==
    <<"A", "B", "C", "D", "E", "F", "G", "H", "I", "J", "K", "L", "M",
      "N", "O", "P", "Q", "R", "S", "T", "U", "V", "W", "X", "Y", "Z">>
LowerCase ==
    <<"a", "b", "c", "d", "e", "f", "g", "h", "i", "j", "k", "l", "m",
      "n", "o", "p", "q", "r", "s", "t", "u", "v", "w", "x", "y", "z">>

LowerChar(c) ==
    IF \E i \in 1..Len(UpperCase) : UpperCase[i] = c
    THEN LowerCase[CHOOSE i \in 1..Len(UpperCase) : UpperCase[i] = c]
    ELSE c

\* str.lower()
Lower(s) == [i \in 1..Len(s) |-> LowerChar(s[i])]

\* sep.join(parts)
RECURSIVE Join(_, _)
Join(sep, parts) ==
    IF parts = <<>> THEN <<>>
    ELSE IF Len(parts) = 1 THEN parts[1]
    ELSE parts[1] \o sep \o Join(sep, Tail(parts))

\* str.split(): the maximal runs of non-whitespace characters.
RECURSIVE SplitFrom(_, _, _)
SplitFrom(s, i, word) ==
    IF i > Len(s)
    THEN IF word = <<>> THEN <<>> ELSE <<word>>
    ELSE IF s[i] \in Whitespace
         THEN (IF word = <<>> THEN <<>> ELSE <<word>>) \o SplitFrom(s, i + 1, <<>>)
         ELSE SplitFrom(s, i + 1, Append(word, s[i]))

Split(s) == SplitFrom(s, 1, <<>>)

\* s[:n]
Slice(s, n) == SubSeq(s, 1, IF Len(s) < n THEN Len(s) ELSE n)

(* ----------------------------------------------------- document tree -- *)
\* What json.loads makes of a string: a decoded value or JSONDecodeError.
Malformed == [ok |-> FALSE]
Decodes(v) == [ok |-> TRUE, val |-> v]

Text(s) == [name |-> "#text", string |-> s, json |-> Malformed]
JsonSource(s, v) == [name |-> "#text", string |-> s, json |-> Decodes(v)]
Elem(n, a, k) == [name |-> n, attrs |-> a, kids |-> k]

IsText(n) == n.name = "#text"
IsTag(n) == n.name # "#text"
HasAttr(n, a) == IsTag(n) /\ a \in DOMAIN n.attrs

\* A reference to a node is its path of child indices from the root; <<>> is
\* the BeautifulSoup object itself.
RECURSIVE NodeAt(_, _)
NodeAt(root, path) ==
    IF path = <<>> THEN root ELSE NodeAt(root.kids[Head(path)], Tail(path))

\* The paths of the descendants of root, in document order (pre-order).
RECURSIVE Descendants(_)
RECURSIVE DescendantsFrom(_, _)
Descendants(root) ==
    IF IsText(root) THEN <<>> ELSE DescendantsFrom(root, 1)
DescendantsFrom(root, i) ==
    IF i > Len(root.kids) THEN <<>>
    ELSE <<(<<i>>)>>
         \o [j \in 1..Len(Descendants(root.kids[i])) |->
                <<i>> \o Descendants(root.kids[i])[j]]
         \o DescendantsFrom(root, i + 1)

\* The tags of a document in document order, each with its place in the tree:
\* what soup.find_all(True) walks.  find_all(...) selects from them, find(...)
\* is the first selected.
Tags(root) ==
    LET all == Descendants(root)
        tags == SelectSeq(all, LAMBDA p : IsTag(NodeAt(root, p)))
    IN  [i \in 1..Len(tags) |-> NodeAt(root, tags[i]) @@ ("path" :> tags[i])]

\* tag.string: the only child when it is a string, the only child's .string
\* when it is a tag, None otherwise.  <<>> stands for None, <<n>> for the string
\* node n.
RECURSIVE TagString(_)
TagString(tag) ==
    IF Len(tag.kids) # 1 THEN <<>>
    ELSE IF IsText(tag.kids[1]) THEN <<tag.kids[1]>>
    ELSE TagString(tag.kids[1])

\* Every string below a node, in document order.  The contents of script and
\* style elements are among them (line 153: they leak into the text unless the
\* elements are removed first).
RECURSIVE AllStrings(_)
RECURSIVE AllStringsFrom(_, _)
AllStrings(node) ==
    IF IsText(node) THEN <<node.string>> ELSE AllStringsFrom(node, 1)
AllStringsFrom(node, i) ==
    IF i > Len(node.kids) THEN <<>>
    ELSE AllStrings(node.kids[i]) \o AllStringsFrom(node, i + 1)

\* tag.get_text(separator=sep)
GetText(node, sep) == Join(sep, AllStrings(node))

\* tag.get_text(strip=True): every string stripped, the empty ones dropped.
GetTextStripped(node) ==
    LET stripped == [i \in 1..Len(AllStrings(node)) |-> Strip(AllStrings(node)[i])]
        NonEmpty(s) == s # <<>>
    IN  Join(<<>>, SelectSeq(stripped, NonEmpty))

\* Decomposed with the removal done while iterating over the live child list:
\* the element after a removed one is skipped.
RECURSIVE Decomposed_skipping(_)
RECURSIVE SkippingFrom(_, _)
Decomposed_skipping(node) ==
    IF IsText(node) THEN node
    ELSE [node EXCEPT !.kids = SkippingFrom(node.kids, 1)]
SkippingFrom(kids, i) ==
    IF i > Len(kids) THEN <<>>
    ELSE IF kids[i].name \in {"script", "style"}
         THEN (IF i + 1 > Len(kids) THEN <<>> ELSE <<kids[i + 1]>>)
              \o SkippingFrom(kids, i + 2)
         ELSE <<Decomposed_skipping(kids[i])>> \o SkippingFrom(kids, i + 1)

\* hidden.decompose() for every hidden in node(["script", "style"]): the node
\* without its script and style descendants.
RECURSIVE Decomposed(_)
Decomposed(node) ==
    IF IsText(node) THEN node
    ELSE LET Shown(k) == k.name \notin {"script", "style"}
             kept == SelectSeq(node.kids, Shown)
         IN  [node EXCEPT !.kids = [i \in 1..Len(kept) |-> Decomposed(kept[i])]]

\* The tree with the node at path replaced.
RECURSIVE ReplaceAt(_, _, _)
ReplaceAt(root, path, new) ==
    IF path = <<>> THEN new
    ELSE [root EXCEPT !.kids[Head(path)] = ReplaceAt(@, Tail(path), new)]

(* -------------------------------------------------- program constants -- *)
S_http == <<"h", "t", "t", "p">>
S_author == <<"a", "u", "t", "h", "o", "r">>
S_byline == <<"b", "y", "l", "i", "n", "e">>
S_NewsArticle == <<"N", "e", "w", "s", "A", "r", "t", "i", "c", "l", "e">>
S_Article == <<"A", "r", "t", "i", "c", "l", "e">>
S_BlogPosting == <<"B", "l", "o", "g", "P", "o", "s", "t", "i", "n", "g">>
S_ReportageNewsArticle ==
    <<"R", "e", "p", "o", "r", "t", "a", "g", "e">> \o S_NewsArticle
NoTitle ==
    <<"(", "n", "o", " ", "t", "i", "t", "l", "e", " ", "f", "o", "u", "n",
      "d", ")">>
NoDate ==
    <<"(", "n", "o", " ", "p", "u", "b", "l", "i", "c", "a", "t", "i", "o",
      "n", " ", "d", "a", "t", "e", " ", "f", "o", "u", "n", "d", ")">>
NoAuthor ==
    <<"(", "n", "o", " ", "a", "u", "t", "h", "o", "r", " ", "f", "o", "u",
      "n", "d", ")">>
CommaSpace == <<",", " ">>
Space == <<" ">>
DEFAULT_URL == "https://en.wikipedia.org/wiki/Web_scraping"

ArticleTypes ==
    {PyStr(S_NewsArticle), PyStr(S_Article), PyStr(S_BlogPosting),
     PyStr(S_ReportageNewsArticle)}

\* str(n) for a non-negative int.
Digit(d) == <<"0", "1", "2", "3", "4", "5", "6", "7", "8", "9">>[d + 1]
RECURSIVE IntStr(_)
IntStr(n) == IF n < 10 THEN <<Digit(n)>> ELSE IntStr(n \div 10) \o <<Digit(n % 10)>>

(* ------------------------------------------------------ extract_json_ld -- *)
\* One pass of the loop body on a script: "return" with the
\* article object, "continue", or the exception that leaves the function.
LdStep(script) ==
    LET str == TagString(script)
    IN  IF str = <<>> THEN [k |-> "continue"]                \* TypeError
        ELSE IF ~str[1].json.ok THEN [k |-> "continue"]      \* JSONDecodeError
        ELSE LET loaded == str[1].json.val
             IN  IF loaded.t = "list" /\ loaded.items = <<>>
                 THEN [k |-> "raise", exc |-> "IndexError"]
                 ELSE LET data == IF loaded.t = "list" THEN loaded.items[1]
                                  ELSE loaded
                      IN  IF data.t # "dict"
                          THEN [k |-> "raise", exc |-> "AttributeError"]
                          ELSE IF DictGet(data, "@type", PyNone) \in ArticleTypes
                               THEN [k |-> "return", val |-> data]
                               ELSE [k |-> "continue"]

RECURSIVE LdLoop(_, _)
LdLoop(scripts, i) ==
    IF i > Len(scripts) THEN PyNone
    ELSE LET r == LdStep(scripts[i])
         IN  CASE r.k = "return" -> r.val
               [] r.k = "raise" -> Raise(r.exc)
               [] OTHER -> LdLoop(scripts, i + 1)

IsLdScript(n) ==
    n.name = "script" /\ HasAttr(n, "type") /\ n.attrs.type = "application/ld+json"

extract_json_ld(soup) == LdLoop(SelectSeq(Tags(soup), IsLdScript), 1)

(* -------------------------------------------------------- extract_title -- *)
extract_title(soup) ==
    LET found == SelectSeq(Tags(soup), LAMBDA n : n.name = "title")
    IN  IF found # <<>> /\ TagString(found[1]) # <<>>
           /\ TagString(found[1])[1].string # <<>>
        THEN PyStr(Strip(TagString(found[1])[1].string))
        ELSE PyStr(NoTitle)

(* ------------------------------------------------------- meta-tag scans -- *)
\* soup.find("meta", attrs={key: value}) for each candidate in turn; the first
\* candidate whose first matching tag has a non-empty content decides.
RECURSIVE MetaScan(_, _, _)
MetaScan(soup, candidates, i) ==
    IF i > Len(candidates) THEN PyNone
    ELSE LET c == candidates[i]
             found == SelectSeq(Tags(soup), LAMBDA n :
                         /\ n.name = "meta"
                         /\ HasAttr(n, c.key)
                         /\ n.attrs[c.key] = c.value)
         IN  IF found # <<>> /\ HasAttr(found[1], "content")
                /\ found[1].attrs.content # <<>>
             THEN PyStr(Strip(found[1].attrs.content))
             ELSE MetaScan(soup, candidates, i + 1)

DateCandidates ==
    << [key |-> "property", value |-> "article:published_time"],
       [key |-> "name", value |-> "publication_date"],
       [key |-> "name", value |-> "date"],
       [key |-> "name", value |-> "pubdate"],
       [key |-> "name", value |-> "DC.date.issued"] >>

AuthorCandidates ==
    << [key |-> "property", value |-> "article:author"],
       [key |-> "name", value |-> "author"],
       [key |-> "name", value |-> "byl"],
       [key |-> "name", value |-> "DC.creator"] >>

(* --------------------------------------------- extract_publication_date -- *)
\* Lines 68-86: the tiers below the structured data.
DateFallback(soup) ==
    LET meta == MetaScan(soup, DateCandidates, 1)
        times == SelectSeq(Tags(soup), LAMBDA n : n.name = "time" /\ HasAttr(n, "datetime"))
    IN  IF meta # PyNone THEN meta
        ELSE IF times # <<>> THEN PyStr(Strip(times[1].attrs.datetime))
        ELSE PyStr(NoDate)

extract_publication_date(soup) ==
    LET ld == extract_json_ld(soup)
    IN  IF IsRaise(ld) THEN ld
        ELSE IF Truthy(ld) /\ Truthy(DictGet(ld, "datePublished", PyNone))
        THEN IF IsStr(ld.d.datePublished)
             THEN PyStr(Strip(ld.d.datePublished.s))
             ELSE Raise("AttributeError")
        ELSE DateFallback(soup)

(* ------------------------------------------------------- extract_author -- *)
\* Lines 97-102: each entry's name, or the entry itself.
AuthorNames(author) ==
    [i \in 1..Len(author.items) |->
        IF author.items[i].t = "dict"
        THEN DictGet(author.items[i], "name", PyStr(<<>>))
        ELSE author.items[i]]

\* JoinNames without the filter of lines 104-107.
JoinNames_unfiltered(names) ==
    IF \E i \in 1..Len(names) : ~IsStr(names[i])
    THEN Raise("TypeError")
    ELSE PyStr(Join(CommaSpace, [i \in 1..Len(names) |-> names[i].s]))

\* Lines 104-108: the truthy names joined; str.join raises on a non-str item.
JoinNames(names) ==
    LET filtered == SelectSeq(names, Truthy)
    IN  IF \E i \in 1..Len(filtered) : ~IsStr(filtered[i])
        THEN Raise("TypeError")
        ELSE PyStr(Join(CommaSpace, [i \in 1..Len(filtered) |-> filtered[i].s]))

\* str(author) of line 111, for the values that reach it.
PyStrOf(v) ==
    CASE v.t = "str" -> PyStr(v.s)
      [] v.t = "int" -> PyStr(IntStr(v.n))

\* Lines 96-111.
LdAuthor(author) ==
    CASE author.t = "list" -> JoinNames(AuthorNames(author))
      [] author.t = "dict" -> DictGet(author, "name", PyStr(NoAuthor))
      [] OTHER -> PyStrOf(author)

\* Lines 126-129: the first element whose class contains the name decides for
\* that name.
RECURSIVE ClassScan(_, _, _)
ClassScan(soup, class_names, i) ==
    IF i > Len(class_names) THEN PyNone
    ELSE LET found == SelectSeq(Tags(soup), LAMBDA n :
                         /\ HasAttr(n, "class")
                         /\ n.attrs.class # <<>>
                         /\ Contains(Lower(n.attrs.class), class_names[i]))
         IN  IF found # <<>> /\ GetTextStripped(found[1]) # <<>>
             THEN PyStr(GetTextStripped(found[1]))
             ELSE ClassScan(soup, class_names, i + 1)

\* Lines 113-131: the tiers below the structured data.
AuthorFallback(soup) ==
    LET meta == MetaScan(soup, AuthorCandidates, 1)
        byclass == ClassScan(soup, <<S_author, S_byline>>, 1)
    IN  IF meta # PyNone THEN meta
        ELSE IF byclass # PyNone THEN byclass
        ELSE PyStr(NoAuthor)

\* extract_author with the meta tags and class names tried before the
\* structured data.
extract_author_meta_first(soup) ==
    LET ld == extract_json_ld(soup)
    IN  IF AuthorFallback(soup) # PyStr(NoAuthor) THEN AuthorFallback(soup)
        ELSE IF IsRaise(ld) THEN ld
        ELSE IF Truthy(ld) /\ Truthy(DictGet(ld, "author", PyNone))
        THEN LdAuthor(ld.d.author)
        ELSE PyStr(NoAuthor)

extract_author(soup) ==
    LET ld == extract_json_ld(soup)
    IN  IF IsRaise(ld) THEN ld
        ELSE IF Truthy(ld) /\ Truthy(DictGet(ld, "author", PyNone))
        THEN LdAuthor(ld.d.author)
        ELSE AuthorFallback(soup)

(* -------------------------------------------------------- extract_links -- *)
\* extract_links over every tag that has an href, not just <a>.
extract_links_any_tag(soup) ==
    LET tags == SelectSeq(Tags(soup), LAMBDA n : HasAttr(n, "href"))
        hrefs == [i \in 1..Len(tags) |-> tags[i].attrs.href]
    IN  SelectSeq(hrefs, LAMBDA h : StartsWith(h, S_http))

extract_links(soup) ==
    LET tags == SelectSeq(Tags(soup), LAMBDA n : n.name = "a" /\ HasAttr(n, "href"))
        hrefs == [i \in 1..Len(tags) |-> tags[i].attrs.href]
    IN  SelectSeq(hrefs, LAMBDA h : StartsWith(h, S_http))

(* --------------------------------------------------------- extract_text -- *)
\* Lines 146-151: the reference to the main content area.
TextBody(soup) ==
    LET article == SelectSeq(Tags(soup), LAMBDA n : n.name = "article")
        wiki == SelectSeq(Tags(soup), LAMBDA n :
                    n.name = "div" /\ HasAttr(n, "id") /\ n.attrs.id = "mw-content-text")
        main == SelectSeq(Tags(soup), LAMBDA n :
                    n.name = "div" /\ HasAttr(n, "role") /\ n.attrs.role = "main")
    IN  IF article # <<>> THEN article[1].path
        ELSE IF wiki # <<>> THEN wiki[1].path
        ELSE IF main # <<>> THEN main[1].path
        ELSE <<>>

\* Lines 154-155: the document after the removal below body.
HideIn(soup, body) == ReplaceAt(soup, body, Decomposed(NodeAt(soup, body)))

\* Lines 157-161 on the document as the removal left it.
CleanedText(soup, body) == Join(Space, Split(GetText(NodeAt(soup, body), Space)))

\* The returned string and the document the call leaves behind.
extract_text(soup) ==
    LET body == TextBody(soup)
        after == HideIn(soup, body)
    IN  [ret |-> CleanedText(after, body), soup |-> after]

(* ------------------------------------------------- pages that are served -- *)
\* The sequences over S of length at most n.
RECURSIVE SeqsUpTo(_, _)
SeqsUpTo(S, n) ==
    IF n = 0 THEN {<<>>}
    ELSE SeqsUpTo(S, n - 1)
         \cup {Append(q, x) : q \in {r \in SeqsUpTo(S, n - 1) : Len(r) = n - 1}, x \in S}

LdType == [type |-> "application/ld+json"]
\* The characters of a JSON source; its decoding is carried beside it.
JsonChars == <<"{", "}">>
LdScript(v) == Elem("script", LdType, <<JsonSource(JsonChars, v)>>)
Obj(type) == "@type" :> type

S_Jane == <<"J", "a", "n", "e">>
S_Hello == <<"H", "i", " ", " ", "\n", "W", "o">>

\* The entries of a JSON-LD author list.
AuthorEntries ==
    { PyStr(<<>>), PyStr(<<"A">>), PyDict([name |-> PyStr(<<"B">>)]),
      PyDict([name |-> PyNone]), PyDict([url |-> PyStr(<<"u">>)]), PyInt(7) }

AuthorValues ==
    { PyNone, PyStr(<<>>), PyStr(<<"N", " ">>), PyInt(7), PyDict(NoAttrs),
      PyDict([name |-> PyStr(S_Jane)]), PyDict([name |-> PyStr(<<>>)]),
      PyDict([name |-> PyNone]), PyDict([url |-> PyStr(<<"u">>)]) }
    \cup {PyList(l) : l \in SeqsUpTo(AuthorEntries, MaxAuthors)}

DateValues ==
    { PyNone, PyStr(<<>>), PyStr(<<" ", "2", "0", " ">>), PyInt(20) }

\* What an application/ld+json script decodes to.
LdObjects ==
    {PyDict(Obj(PyStr(S_Article)) @@ ("author" :> a)) : a \in AuthorValues}
    \cup {PyDict(Obj(ty) @@ ("datePublished" :> d)) :
             ty \in {PyStr(S_NewsArticle), PyStr(S_BlogPosting)}, d \in DateValues}
    \cup { PyDict(Obj(PyStr(S_ReportageNewsArticle))),
           PyDict(Obj(PyStr(S_NewsArticle)) @@ ("author" :> PyDict([name |-> PyStr(S_Jane)]))
                  @@ ("datePublished" :> PyStr(<<"2", "1">>))),
           PyDict(Obj(PyStr(<<"P">>)) @@ ("author" :> PyStr(<<"X">>))),
           PyDict([author |-> PyStr(<<"X">>)]) }

LdValues ==
    LdObjects
    \cup { PyList(<<>>), PyList(<<PyInt(1)>>), PyStr(<<"s">>), PyInt(1), PyNone,
           PyList(<<PyDict(Obj(PyStr(S_Article)) @@ ("author" :> PyStr(<<"L">>)))>>) }

\* What may precede the article script: nothing, or a script that is skipped
\* or that stops the scan.
LdPrefixes ==
    { <<>>,
      <<Elem("script", LdType, <<>>)>>,
      <<Elem("script", LdType, <<Text(<<"{">>)>>)>>,
      <<LdScript(PyDict(Obj(PyStr(<<"P">>))))>>,
      <<LdScript(PyList(<<>>))>>,
      <<LdScript(PyStr(<<"s">>))>> }

MetaAuthor == Elem("meta", [name |-> "author", content |-> <<" ", "M", " ">>], <<>>)
BylineBox == Elem("div", [class |-> <<"B", "y", "L", "i", "n", "e">>], <<Text(<<" ", "Y">>)>>)

\* What may follow it: the lower tiers of the author and date chains.
LdTails ==
    { <<>>,
      <<MetaAuthor>>,
      <<BylineBox>>,
      <<BylineBox, MetaAuthor>>,
      <<Elem("meta", [name |-> "date", content |-> <<"d", " ">>], <<>>)>> }

LdPages == {pre \o <<LdScript(v)>> \o post :
               pre \in LdPrefixes, v \in LdValues, post \in LdTails}

HttpsLink == Elem("a", [href |-> S_http \o <<"s", ":", "x">>], <<Text(<<"g", "o">>)>>)
PlainScript == Elem("script", NoAttrs, <<Text(<<"v", "a", "r">>)>>)

\* The top-level elements of the other pages.
PagePool ==
    { Elem("title", NoAttrs, <<Text(<<" ", "T", " ">>)>>),
      Elem("title", NoAttrs, <<>>),
      HttpsLink,
      Elem("a", [href |-> <<"/", "r">>], <<>>),
      Elem("a", [href |-> <<"f", "t", "p", ":", "x">>], <<>>),
      Elem("a", [name |-> "top"], <<>>),
      Elem("link", [href |-> S_http \o <<":", "c">>], <<>>),
      Text(S_Hello),
      PlainScript,
      LdScript(PyDict(Obj(PyStr(S_NewsArticle))
                      @@ ("author" :> PyDict([name |-> PyStr(S_Jane)])))),
      Elem("article", NoAttrs, <<PlainScript, Text(S_Hello), HttpsLink>>),
      Elem("div", [id |-> "mw-content-text"],
           <<Elem("style", NoAttrs, <<Text(<<"c", "s", "s">>)>>), Text(<<"w">>)>>),
      Elem("div", [role |-> "main"], <<Text(<<"m", "\t">>), PlainScript>>),
      MetaAuthor,
      Elem("p", [class |-> <<"x", " ", "A", "u", "t", "h", "o", "r">>],
           <<Text(<<"B", "o", "b", " ">>)>>),
      Elem("time", [datetime |-> <<"t", "1">>], <<>>) }

\* The markup of a served page, as the elements html.parser makes of it.  A
\* script or style element holds character data only (the parser reads up to
\* the closing tag without looking for tags), so none of them has element
\* children.
Pages == SeqsUpTo(PagePool, MaxDocLen) \cup LdPages

\* BeautifulSoup(html, "html.parser"): the document object over the markup.
BeautifulSoup(html) == Elem("[document]", NoAttrs, html)

(* ---------------------------------------------------------- the program -- *)
VARIABLES
    argv,      \* sys.argv
    pc,        \* the line about to run
    url,       \* __main__'s url, scrape_article's parameter
    html,      \* line 166
    soup,      \* line 170; extract_text changes it in place
    stack,     \* the values of the dict display of lines 172-181 so far
    data,      \* line 172
    links,     \* line 183
    text,      \* line 187
    result,    \* line 197
    stdout,    \* what has been printed
    exc        \* the exception that ended the program, if any

vars == <<argv, pc, url, html, soup, stack, data, links, text, result, stdout, exc>>

Unbound == [t |-> "unbound"]
OtherUrl == "https://example.com/news"

\* What the network answers: a transport error, or a status and a body.
Responses ==
    {[kind |-> "error", exc |-> e] : e \in {"ConnectionError", "Timeout"}}
    \cup {[kind |-> "http", status |-> st, text |-> <<>>] : st \in {404, 500}}
    \cup {[kind |-> "http", status |-> 200, text |-> page] : page \in Pages}

Init ==
    /\ argv \in {<<"extractor_basic.py">>, <<"extractor_basic.py", OtherUrl>>}
    /\ pc = "L196"
    /\ url = Unbound
    /\ html = Unbound
    /\ soup = Unbound
    /\ stack = <<>>
    /\ data = Unbound
    /\ links = Unbound
    /\ text = Unbound
    /\ result = Unbound
    /\ stdout = <<>>
    /\ exc = PyNone

\* Line 196.
ChooseUrl ==
    /\ pc = "L196"
    /\ url' = PyStr(IF Len(argv) > 1 THEN argv[2] ELSE DEFAULT_URL)
    /\ pc' = "L166"
    /\ UNCHANGED <<argv, html, soup, stack, data, links, text, result, stdout, exc>>

\* requests.get + raise_for_status: the RequestException, if any.
RequestException(response) ==
    IF response.kind = "error" THEN <<response.exc>>
    ELSE IF response.status >= 400 THEN <<"HTTPError">>
    ELSE <<>>

\* fetch_html without the print of line 33.
fetch_html_silent ==
    /\ pc = "L166"
    /\ \E response \in Responses :
         html' = IF RequestException(response) # <<>> THEN PyNone
                 ELSE [t |-> "markup", nodes |-> response.text]
    /\ stdout' = stdout
    /\ pc' = "L167"
    /\ UNCHANGED <<argv, url, soup, stack, data, links, text, result, exc>>

\* Line 166: fetch_html(url), lines 25-34.
fetch_html ==
    /\ pc = "L166"
    /\ \E response \in Responses :
         LET err == RequestException(response)
         IN  IF err # <<>>
             THEN /\ stdout' = Append(stdout, [line |-> "Error fetching URL: ", err |-> err[1]])
                  /\ html' = PyNone
             ELSE /\ stdout' = stdout
                  /\ html' = [t |-> "markup", nodes |-> response.text]
    /\ pc' = "L167"
    /\ UNCHANGED <<argv, url, soup, stack, data, links, text, result, exc>>

\* Lines 167-168.
ReturnNone ==
    /\ pc = "L167"
    /\ html = PyNone
    /\ result' = PyNone
    /\ pc' = "L198"
    /\ UNCHANGED <<argv, url, html, soup, stack, data, links, text, stdout, exc>>

\* Line 170.
Parse ==
    /\ pc = "L167"
    /\ html # PyNone
    /\ soup' = BeautifulSoup(html.nodes)
    /\ pc' = "L174"
    /\ UNCHANGED <<argv, url, html, stack, data, links, text, result, stdout, exc>>

\* One value of the dict display: pushed, or the exception leaves the program.
Evaluate(at, value, next) ==
    /\ pc = at
    /\ IF IsRaise(value)
       THEN /\ exc' = [t |-> "raise", exc |-> value.exc, line |-> at]
            /\ pc' = "uncaught"
            /\ stack' = <<>>
       ELSE /\ exc' = exc
            /\ pc' = next
            /\ stack' = Append(stack, value)

\* Line 174.
Title ==
    /\ Evaluate("L174", extract_title(soup), "L175")
    /\ UNCHANGED <<argv, url, html, soup, data, links, text, result, stdout>>

\* Line 175.
Author ==
    /\ Evaluate("L175", extract_author(soup), "L176")
    /\ UNCHANGED <<argv, url, html, soup, data, links, text, result, stdout>>

\* Line 176.
PublicationDate ==
    /\ Evaluate("L176", extract_publication_date(soup), "L177")
    /\ UNCHANGED <<argv, url, html, soup, data, links, text, result, stdout>>

\* Line 177.
LinkCount ==
    /\ Evaluate("L177", PyInt(Len(extract_links(soup))), "L178")
    /\ UNCHANGED <<argv, url, html, soup, data, links, text, result, stdout>>

\* Lines 178-181 and the assignment of line 172.
TextLength ==
    /\ pc = "L178"
    /\ soup' = extract_text(soup).soup
    /\ data' = [ url |-> url,
                 title |-> stack[1],
                 author |-> stack[2],
                 publication_date |-> stack[3],
                 link_count |-> stack[4].n,
                 text_length |-> Len(extract_text(soup).ret),
                 links |-> <<>>,
                 text_preview |-> <<>> ]
    /\ stack' = <<>>
    /\ pc' = "L183"
    /\ UNCHANGED <<argv, url, html, links, text, result, stdout, exc>>

\* Line 183.
Links ==
    /\ pc = "L183"
    /\ links' = extract_links(soup)
    /\ pc' = "L187"
    /\ UNCHANGED <<argv, url, html, soup, stack, data, text, result, stdout, exc>>

\* Line 187.
VisibleText ==
    /\ pc = "L187"
    /\ text' = extract_text(soup).ret
    /\ soup' = extract_text(soup).soup
    /\ pc' = "L192"
    /\ UNCHANGED <<argv, url, html, stack, data, links, result, stdout, exc>>

\* Line 192.
ReturnData ==
    /\ pc = "L192"
    /\ result' = data
    /\ pc' = "L198"
    /\ UNCHANGED <<argv, url, html, soup, stack, data, links, text, stdout, exc>>

\* Lines 198-201.  A dict with keys is true, None is not.
PrintResult ==
    /\ pc = "L198"
    /\ stdout' = Append(stdout,
                    IF result # PyNone
                    THEN [line |-> "json", record |-> result]
                    ELSE [line |-> "Scraping failed. Check the URL and your network connection."])
    /\ pc' = "exit"
    /\ UNCHANGED <<argv, url, html, soup, stack, data, links, text, result, exc>>

Next ==
    \/ ChooseUrl
    \/ fetch_html
    \/ ReturnNone
    \/ Parse
    \/ Title
    \/ Author
    \/ PublicationDate
    \/ LinkCount
    \/ TextLength
    \/ Links
    \/ VisibleText
    \/ ReturnData
    \/ PrintResult

Spec == Init /\ [][Next]_vars

(* ------------------------------------------------------------ properties -- *)
\* The fetch succeeded.
Fetched == html # Unbound /\ html # PyNone

\* The document as line 170 built it, before any extractor ran.
Page == BeautifulSoup(html.nodes)

\* The record has been built (line 172 has run).
Built == pc \in {"L183", "L187", "L192", "L198", "exit"} /\ data # Unbound

\* Lines 183 and 187 have run: links and text are bound.
Returned == pc \in {"L192", "L198", "exit"} /\ data # Unbound

\* The http hrefs below a node in document order; of <a> elements only, or of
\* every element.
RECURSIVE HttpHrefs(_, _)
RECURSIVE HttpHrefsFrom(_, _, _)
HttpHrefs(node, anchorsOnly) ==
    IF IsText(node) THEN <<>>
    ELSE (IF /\ "href" \in DOMAIN node.attrs
             /\ (anchorsOnly => node.name = "a")
             /\ Len(node.attrs.href) >= 4
             /\ node.attrs.href[1] = "h" /\ node.attrs.href[2] = "t"
             /\ node.attrs.href[3] = "t" /\ node.attrs.href[4] = "p"
          THEN <<node.attrs.href>> ELSE <<>>)
         \o HttpHrefsFrom(node, anchorsOnly, 1)
HttpHrefsFrom(node, anchorsOnly, i) ==
    IF i > Len(node.kids) THEN <<>>
    ELSE HttpHrefs(node.kids[i], anchorsOnly) \o HttpHrefsFrom(node, anchorsOnly, i + 1)

\* The script and style elements of a document, in document order.
HiddenElements(doc) ==
    LET found == SelectSeq(Tags(doc), LAMBDA n : n.name \in {"script", "style"})
    IN  [i \in 1..Len(found) |-> NodeAt(doc, found[i].path)]

\* C1: for every successful fetch the record's link_count equals the number
\* of entries of the links sequence of the same record.
C1_LinkCountIsLenLinks ==
    Built => data.link_count = Len(data.links)

C3_JsonLdNeverRaises ==
    (Fetched /\ pc \notin {"L167", "L174", "L175"}) =>
        ~IsRaise(extract_json_ld(Page))

\* C4: extract_text leaves the parsed document unchanged: after it has run the
\* document has the script and style elements it had, and extract_json_ld,
\* extract_author, extract_publication_date, extract_title and extract_links
\* return what they returned before.
C4_TextLeavesDocument ==
    Built =>
        /\ HiddenElements(soup) = HiddenElements(Page)
        /\ extract_json_ld(soup) = extract_json_ld(Page)
        /\ extract_author(soup) = extract_author(Page)
        /\ extract_publication_date(soup) = extract_publication_date(Page)
        /\ extract_title(soup) = extract_title(Page)
        /\ extract_links(soup) = extract_links(Page)

\* The N of C5: the non-empty name of the article block's author object, or
\* the non-empty author string; <<>> when there is none.
NamedAuthor(ld) ==
    IF ld.t = "dict" /\ "author" \in DOMAIN ld.d
    THEN LET a == ld.d.author
         IN  IF a.t = "str" /\ a.s # <<>> THEN <<a.s>>
             ELSE IF a.t = "dict" /\ "name" \in DOMAIN a.d
                     /\ a.d.name.t = "str" /\ a.d.name.s # <<>>
             THEN <<a.d.name.s>>
             ELSE <<>>
    ELSE <<>>

\* The document with nothing but its application/ld+json scripts.
StructuredOnly(doc) ==
    LET found == SelectSeq(Tags(doc), IsLdScript)
    IN  [doc EXCEPT !.kids = [i \in 1..Len(found) |-> NodeAt(doc, found[i].path)]]

\* No structured-data author is found: no article block, or one whose author
\* is missing or empty.
NoStructuredAuthor(ld) ==
    \/ ld = PyNone
    \/ ld.t = "dict" /\ ~Truthy(DictGet(ld, "author", PyNone))

\* C5: when extract_json_ld finds an article block whose author is an object
\* with a non-empty name N, or a non-empty string N, extract_author returns
\* exactly N whatever meta tags and author/byline elements the document has;
\* when no structured-data author is found the meta tags decide, then the
\* class names, then the sentinel.
C5_StructuredAuthorFirst ==
    pc = "L176" =>
        LET ld == extract_json_ld(soup)
            meta == MetaScan(soup, AuthorCandidates, 1)
            byclass == ClassScan(soup, <<S_author, S_byline>>, 1)
        IN  /\ NamedAuthor(ld) # <<>> => stack[2] = PyStr(NamedAuthor(ld)[1])
            /\ NoStructuredAuthor(ld) =>
                  stack[2] = IF meta # PyNone THEN meta
                             ELSE IF byclass # PyNone THEN byclass
                             ELSE PyStr(NoAuthor)
            /\ ~NoStructuredAuthor(ld) => stack[2] = extract_author(StructuredOnly(soup))

C5_Witness ==
    /\ pc = "L176"
    /\ stack[2] = PyStr(S_Jane)
    /\ MetaScan(soup, AuthorCandidates, 1) = PyStr(<<"M">>)
    /\ ClassScan(soup, <<S_author, S_byline>>, 1) = PyStr(<<"Y">>)

\* C6: on every document whose structured data can be scanned, no extractor
\* raises, title, author and publication_date of the record are each a
\* string, and the author is the sentinel only when neither the structured
\* data nor a meta tag nor a class name gives one.
C6_RecordComplete ==
    /\ (Fetched /\ ~IsRaise(extract_json_ld(Page))) => exc = PyNone
    /\ Built =>
          /\ IsStr(data.title) /\ IsStr(data.author) /\ IsStr(data.publication_date)
          /\ data.author = PyStr(NoAuthor) =>
                /\ NoStructuredAuthor(extract_json_ld(Page))
                /\ MetaScan(Page, AuthorCandidates, 1) = PyNone
                /\ ClassScan(Page, <<S_author, S_byline>>, 1) = PyNone

C8_PreviewIsPrefix ==
    Returned =>
        /\ data.text_preview = Slice(text, PreviewLen)
        /\ data.text_length = Len(text)
        /\ Len(data.text_preview) = (IF Len(text) < PreviewLen THEN Len(text) ELSE PreviewLen)

\* An entry of an author list as C9 takes it: a string, or an object whose
\* name is a string, null or missing.
ListEntry(e) ==
    \/ e.t = "str"
    \/ e.t = "dict" /\ ("name" \in DOMAIN e.d => e.d.name.t \in {"str", "None"})

RECURSIVE Survivors(_)
Survivors(items) ==
    IF items = <<>> THEN <<>>
    ELSE LET e == Head(items)
             n == IF e.t = "str" THEN e.s
                  ELSE IF "name" \in DOMAIN e.d /\ e.d.name.t = "str" THEN e.d.name.s
                  ELSE <<>>
         IN  (IF n = <<>> THEN <<>> ELSE <<n>>) \o Survivors(Tail(items))

RECURSIVE CommaJoined(_)
CommaJoined(parts) ==
    IF parts = <<>> THEN <<>>
    ELSE IF Len(parts) = 1 THEN parts[1]
    ELSE CommaJoined(SubSeq(parts, 1, Len(parts) - 1)) \o <<",", " ">> \o parts[Len(parts)]

\* The author list of the article block, when it is a non-empty list of such
\* entries; <<>> otherwise.
AuthorList(ld) ==
    IF /\ ld.t = "dict" /\ "author" \in DOMAIN ld.d
       /\ ld.d.author.t = "list"
       /\ \A i \in 1..Len(ld.d.author.items) : ListEntry(ld.d.author.items[i])
    THEN ld.d.author.items
    ELSE <<>>

\* C9: when the article block's author is a non-empty list, extract_author
\* returns the non-empty names of its entries joined with ", " in list order,
\* and never the value of a meta tag or class name, even when no name is left
\* and the result is the empty string.
C9_AuthorListJoined ==
    ( /\ Fetched
      /\ pc = "L176" \/ (pc = "uncaught" /\ exc.line = "L175")
      /\ AuthorList(extract_json_ld(Page)) # <<>> ) =>
        /\ pc = "L176"
        /\ stack[2] = PyStr(CommaJoined(Survivors(AuthorList(extract_json_ld(Page)))))

C9_Witness ==
    /\ pc = "L176"
    /\ Len(AuthorList(extract_json_ld(soup))) = 2
    /\ stack[2] = PyStr(<<"A", ",", " ", "B">>)
    /\ MetaScan(soup, AuthorCandidates, 1) # PyNone

\* C10: the second extract_text (line 187), on the document the first one
\* changed, returns what the first returned on the document as parsed;
\* extract_links returns after extract_text what it returned before; so the
\* record's text_length and link_count are the lengths of the later text and
\* links.
C10_TextIdempotent ==
    Returned =>
        /\ text = extract_text(Page).ret
        /\ soup = extract_text(Page).soup
        /\ links = extract_links(Page)
        /\ data.text_length = Len(text)
        /\ data.link_count = Len(links)

C10_Witness ==
    /\ Returned
    /\ Len(HiddenElements(Page)) = 2
    /\ Len(HiddenElements(soup)) = 1
    /\ text # <<>>
    /\ links # <<>>

====
